---------------------------- MODULE Spec2Model ----------------------------
(* Model of the bike-sharing ETL DAG (dags/bike_sharing_etl.py): five tasks *)
(* run in a line by the scheduler, handing tables over through XCom as JSON *)
(* and ending in three Parquet files.                                       *)
(*                                                                          *)
(* A table (DataFrame) is [columns, index, rows]: the ordered column names, *)
(* the index labels and one record per row.  A missing value is the empty   *)
(* tuple: NaT for a date, <<>> for a nullable number; a missing label is    *)
(* the string "NaN".  A date is <<year, month, day>>.  A float is kept as   *)
(* an integer number of hundredths.                                         *)
EXTENDS Integers, Sequences, FiniteSets, TLC

VARIABLES
    csv,      \* the input file
    xcom,     \* the XCom entries of the run: key -> JSON payload
    files,    \* the files under PROCESSED_DIR: name -> content
    state,    \* task id -> state of the task instance
    tries,    \* task id -> tries made so far
    result,   \* task id -> value the callable returned
    raised,   \* task id -> error its latest try logged and raised, if any
    pulled    \* task id -> the XCom keys its latest try pulled

vars == <<csv, xcom, files, state, tries, result, raised, pulled>>

-----------------------------------------------------------------------------
(* Bounds of the model *)

\* longest input table, in rows
MaxRows == 3

-----------------------------------------------------------------------------
(* Generic helpers on sequences *)

Range(s) == {s[i] : i \in 1..Len(s)}

RECURSIVE SumSeq(_)
SumSeq(s) == IF s = <<>> THEN 0 ELSE Head(s) + SumSeq(Tail(s))

SeqsUpTo(S, n) == UNION {[1..k -> S] : k \in 0..n}

\* the elements of a finite set of integers in increasing order
SortedInts(S) ==
    [k \in 1..Cardinality(S) |->
        CHOOSE x \in S : Cardinality({y \in S : y <= x}) = k]

-----------------------------------------------------------------------------
(* Calendar: what pandas' Timestamp.year and dt.isocalendar() compute *)

NaT == <<>>

IsLeap(y) == (y % 4 = 0 /\ y % 100 # 0) \/ y % 400 = 0

DaysInYear(y) == IF IsLeap(y) THEN 366 ELSE 365

DaysInMonth(y, m) ==
    IF m = 2 THEN (IF IsLeap(y) THEN 29 ELSE 28)
    ELSE IF m \in {4, 6, 9, 11} THEN 30 ELSE 31

RECURSIVE DaysBeforeMonth(_, _)
DaysBeforeMonth(y, m) ==
    IF m = 1 THEN 0 ELSE DaysBeforeMonth(y, m - 1) + DaysInMonth(y, m - 1)

\* proleptic ordinal relative to 2001-01-01 (a Monday), which has ordinal 0
RECURSIVE DaysBeforeYear(_)
DaysBeforeYear(y) ==
    IF y = 2001 THEN 0 ELSE DaysBeforeYear(y - 1) + DaysInYear(y - 1)

Ordinal(d) == DaysBeforeYear(d[1]) + DaysBeforeMonth(d[1], d[2]) + d[3] - 1

\* Monday = 0 .. Sunday = 6
DayOfWeek(d) == Ordinal(d) % 7

\* ordinal of the Monday that starts ISO week 1 of year y
IsoWeek1Monday(y) ==
    LET firstday     == DaysBeforeYear(y)
        firstweekday == firstday % 7
        week1monday  == firstday - firstweekday
    IN  IF firstweekday > 3 THEN week1monday + 7 ELSE week1monday

\* <<ISO year, ISO week>> of a date
IsoCalendar(d) ==
    LET y     == d[1]
        today == Ordinal(d)
    IN  IF today < IsoWeek1Monday(y)
        THEN <<y - 1, ((today - IsoWeek1Monday(y - 1)) \div 7) + 1>>
        ELSE IF today >= IsoWeek1Monday(y + 1)
             THEN <<y + 1, 1>>
             ELSE <<y, ((today - IsoWeek1Monday(y)) \div 7) + 1>>

DateLE(a, b) == Ordinal(a) <= Ordinal(b)

\* the elements of a finite set of dates in increasing order
SortedDates(S) ==
    [k \in 1..Cardinality(S) |->
        CHOOSE x \in S : Cardinality({y \in S : DateLE(y, x)}) = k]

-----------------------------------------------------------------------------
(* Text forms of a date.  A date in the CSV file or in a JSON payload is    *)
(* text: [text |-> <<y, m, d>>] stands for "y-m-d", [text |-> <<y, m, d, 0, *)
(* 0, 0>>] for the ISO form "y-m-dT00:00:00.000" and [text |-> <<>>] for a  *)
(* blank cell or a JSON null.                                               *)

\* pd.to_datetime on one cell: a blank or null becomes NaT
to_datetime(cell) ==
    IF cell.text = <<>> THEN NaT
    ELSE <<cell.text[1], cell.text[2], cell.text[3]>>

\* to_json(date_format='iso') on one Timestamp
IsoFormat(d) ==
    IF d = NaT THEN [text |-> <<>>]
    ELSE [text |-> <<d[1], d[2], d[3], 0, 0, 0>>]

\* Timestamp.year: NaN (here <<>>) for NaT
YearOf(d) == IF d = NaT THEN <<>> ELSE <<d[1]>>

\* isocalendar().week: <NA> (here <<>>) for NaT
WeekOf(d) == IF d = NaT THEN <<>> ELSE <<IsoCalendar(d)[2]>>

-----------------------------------------------------------------------------
(* Tables *)

Table(cols, idx, rws) == [columns |-> cols, index |-> idx, rows |-> rws]

\* df[col] = vals, one value per row: a new column is appended, an existing
\* one is overwritten in place
WithColumn(df, col, vals) ==
    Table(IF col \in Range(df.columns) THEN df.columns
          ELSE Append(df.columns, col),
          df.index,
          [i \in 1..Len(df.rows) |->
              [c \in DOMAIN df.rows[i] \cup {col} |->
                  IF c = col THEN vals[i] ELSE df.rows[i][c]]])

\* rows of df at the given positions, in that order, with their index labels
Take(df, pos) ==
    Table(df.columns,
          [k \in 1..Len(pos) |-> df.index[pos[k]]],
          [k \in 1..Len(pos) |-> df.rows[pos[k]]])

\* the columns whose cells are Timestamps in a DataFrame
DateColumns == {"dteday", "date", "week_start", "week_end"}

\* the columns whose cells are labels (str, or NaN for none)
LabelColumns == {"season_name", "weather_desc", "day_name", "month_name"}

\* df.to_json(date_format='iso'): columns and index labels in order, every
\* Timestamp written as ISO text, NaT and NaN as null
to_json(df) ==
    Table(df.columns, df.index,
          [i \in 1..Len(df.rows) |->
              [c \in DOMAIN df.rows[i] |->
                  IF c \in DateColumns THEN IsoFormat(df.rows[i][c])
                  ELSE IF c \in LabelColumns /\ df.rows[i][c] = "NaN" THEN "null"
                  ELSE df.rows[i][c]]])

\* pd.read_json: the payload's columns, index labels and rows in payload
\* order; a date column comes back as text (or already parsed, which the
\* pd.to_datetime that always follows makes the same), a null label as None
read_json(js) ==
    Table(js.columns, js.index,
          [i \in 1..Len(js.rows) |->
              [c \in DOMAIN js.rows[i] |->
                  IF c \in LabelColumns /\ js.rows[i][c] = "null" THEN "None"
                  ELSE js.rows[i][c]]])

\* df[col] = pd.to_datetime(df[col])
ParseDates(df, col) ==
    WithColumn(df, col, [i \in 1..Len(df.rows) |-> to_datetime(df.rows[i][col])])

-----------------------------------------------------------------------------
(* The input file hour.csv *)

expected_columns ==
    <<"instant", "dteday", "season", "yr", "mnth", "hr",
      "holiday", "weekday", "workingday", "weathersit",
      "temp", "atemp", "hum", "windspeed",
      "casual", "registered", "cnt">>

\* dates a file may hold besides an ordinary day: days at the edges of 2011
\* and 2012 whose ISO year is not their calendar year or whose ISO week is
\* shared with the other end of the year, the first day after the range and
\* a blank cell
EdgeDates ==
    {<<2011, 1, 1>>, <<2011, 12, 31>>, <<2012, 1, 1>>, <<2013, 1, 1>>, NaT}

\* the last day of the range (ISO week 1 of 2013) and the last day before it
LastDay == <<2012, 12, 31>>

DayBefore == <<2010, 12, 31>>

\* an ordinary day: a Monday, in ISO week 1 of its own year
PlainDate == <<2012, 1, 2>>

AllHours == 0..23

\* weathersit and the three counts of a row
FirstCounts == [weathersit |-> 1, casual |-> 1, registered |-> 2, cnt |-> 3]

SecondCounts == [weathersit |-> 2, casual |-> 0, registered |-> 4, cnt |-> 4]

\* the lines of the ordinary day: two lines for hour 7, which differ in their
\* counts, and one line each for hours 10 and 17
PlainLines ==
    {<<7, FirstCounts>>, <<7, SecondCounts>>, <<10, SecondCounts>>,
     <<17, FirstCounts>>}

\* the code columns of a row as the dataset derives them from its date
DatasetCodes(d) ==
    [season     |-> IF d = NaT THEN 1 ELSE ((d[2] % 12) \div 3) + 1,
     mnth       |-> IF d = NaT THEN 1 ELSE d[2],
     weekday    |-> IF d = NaT THEN 0 ELSE (DayOfWeek(d) + 1) % 7,
     weathersit |-> 1]

\* code columns outside their enumerations
BadCodes ==
    {[DatasetCodes(PlainDate) EXCEPT !.season = 0],
     [DatasetCodes(PlainDate) EXCEPT !.season = 5],
     [DatasetCodes(PlainDate) EXCEPT !.weathersit = 5],
     [DatasetCodes(PlainDate) EXCEPT !.weekday = 7],
     [DatasetCodes(PlainDate) EXCEPT !.mnth = 13]}

\* one line of the file; instant is filled in from the line's position
RawRow(d, h, codes, k) ==
    [instant    |-> 0,
     dteday     |-> [text |-> d],
     season     |-> codes.season,
     yr         |-> IF d = NaT THEN 0 ELSE d[1] - 2011,
     mnth       |-> codes.mnth,
     hr         |-> h,
     holiday    |-> 0,
     weekday    |-> codes.weekday,
     workingday |-> IF codes.weekday \in {0, 6} THEN 0 ELSE 1,
     weathersit |-> IF codes.weathersit = 1 THEN k.weathersit ELSE codes.weathersit,
     temp       |-> 50,
     atemp      |-> 48,
     hum        |-> 80,
     windspeed  |-> 25,
     casual     |-> k.casual,
     registered |-> k.registered,
     cnt        |-> k.cnt]

\* the lines of the tables of several rows: one line on each edge date and
\* the lines of the ordinary day
RowPool ==
    {RawRow(d, 7, DatasetCodes(d), FirstCounts) : d \in EdgeDates}
    \cup {RawRow(PlainDate, l[1], DatasetCodes(PlainDate), l[2]) : l \in PlainLines}

\* the lines of the tables of one row: every hour, every bad code, the last
\* day of the range and the day before the range
SinglePool ==
    {RawRow(d, 7, DatasetCodes(d), FirstCounts) : d \in {LastDay, DayBefore}}
    \cup {RawRow(PlainDate, h, DatasetCodes(PlainDate), FirstCounts) : h \in AllHours}
    \cup {RawRow(PlainDate, 8, c, FirstCounts) : c \in BadCodes}

\* the lines numbered 1, 2, ... in the instant column
Numbered(rws) == [i \in 1..Len(rws) |-> [rws[i] EXCEPT !.instant = i]]

\* column lists that are not the expected one: a column missing, a column
\* too many, two columns swapped
MismatchedColumns ==
    {SubSeq(expected_columns, 1, 16),
     Append(expected_columns, "extra"),
     <<"dteday", "instant">> \o SubSeq(expected_columns, 3, 17)}

\* a file: its header and its lines, each line holding the header's columns
CsvFile(cols, rws) ==
    [columns |-> cols,
     rows    |-> [i \in 1..Len(rws) |->
                    [c \in Range(cols) |->
                        IF c \in DOMAIN rws[i] THEN rws[i][c] ELSE 0]]]

InputFiles ==
    {CsvFile(expected_columns, Numbered(rws)) : rws \in SeqsUpTo(RowPool, MaxRows)}
    \cup {CsvFile(expected_columns, Numbered(<<r>>)) : r \in SinglePool}
    \cup {CsvFile(cols, Numbered(<<RawRow(PlainDate, 8, DatasetCodes(PlainDate), FirstCounts)>>)) :
            cols \in MismatchedColumns}

\* pd.read_csv: the header, a RangeIndex from 0 and the lines
read_csv(f) ==
    Table(f.columns, [i \in 1..Len(f.rows) |-> i - 1], f.rows)

-----------------------------------------------------------------------------
(* The DAG: task ids in dependency order, retries and XCom *)

task_ids ==
    <<"extract_and_validate", "transform_clean_and_denormalize",
      "transform_feature_engineering", "transform_aggregations",
      "load_to_parquet">>

Tasks == Range(task_ids)

retries == 2

TaskPos(t) == CHOOSE i \in 1..Len(task_ids) : task_ids[i] = t

\* trigger rule all_done: the task before has ended, well or not
UpstreamEnded(t) ==
    IF TaskPos(t) = 1 THEN TRUE
    ELSE state[task_ids[TaskPos(t) - 1]] \in {"success", "failed"}

\* task_extract >> task_clean >> task_features >> task_aggregate >> task_load
UpstreamDone(t) ==
    IF TaskPos(t) = 1 THEN TRUE
    ELSE state[task_ids[TaskPos(t) - 1]] = "success"

\* the scheduler runs a task whose upstream succeeded and that has not run
\* or is waiting for a retry
Runnable(t) == state[t] \in {"none", "up_for_retry"} /\ UpstreamDone(t)

\* the keys each task pushes
XComKeys(t) ==
    IF t = "extract_and_validate" THEN {"validated_data"}
    ELSE IF t = "transform_clean_and_denormalize" THEN {"cleaned_data"}
    ELSE IF t = "transform_feature_engineering" THEN {"featured_data"}
    ELSE IF t = "transform_aggregations"
         THEN {"final_data", "daily_agg", "weekly_agg"}
    ELSE {}

\* a dict without the given keys
Without(f, ks) == [k \in DOMAIN f \ ks |-> f[k]]

\* a dict with key k set to v
With(f, k, v) == [x \in DOMAIN f \cup {k} |-> IF x = k THEN v ELSE f[x]]

\* the task instance starts a try with none of its own XCom entries
ClearedXCom(t) == Without(xcom, XComKeys(t))

\* the keys each task pulls
PullKeys(t) ==
    IF t = "transform_clean_and_denormalize" THEN {"validated_data"}
    ELSE IF t = "transform_feature_engineering" THEN {"cleaned_data"}
    ELSE IF t = "transform_aggregations" THEN {"featured_data"}
    ELSE IF t = "load_to_parquet" THEN {"final_data", "daily_agg", "weekly_agg"}
    ELSE {}

\* xcom_pull gives None for a key that is not there, and pd.read_json
\* raises on it
PullFails(t) == ~(PullKeys(t) \subseteq DOMAIN xcom)

\* what may go wrong at the XCom backend in a try: nothing, or the
\* xcom_push of one key raising
NoPushFault == {"none"}

PushFaults(t) == {"none"} \cup XComKeys(t)

\* the XCom entries after the pushes in order, the push of `fault` raising
RECURSIVE PushAll(_, _, _)
PushAll(xc, pushes, fault) ==
    IF pushes = <<>> THEN xc
    ELSE LET p == Head(pushes)
         IN  IF p.key = fault THEN xc
             ELSE PushAll(With(xc, p.key, p.value), Tail(pushes), fault)

\* the callable returned: the task instance succeeds and keeps the value
Succeeded(t, ret) ==
    /\ state' = [state EXCEPT ![t] = "success"]
    /\ tries' = [tries EXCEPT ![t] = @ + 1]
    /\ result' = With(result, t, ret)
    /\ raised' = Without(raised, {t})

\* the callable logged the error and raised it: the task instance is
\* retried while tries remain and failed after that
Raised(t, e) ==
    /\ state' = [state EXCEPT ![t] =
                    IF tries[t] + 1 > retries THEN "failed" ELSE "up_for_retry"]
    /\ tries' = [tries EXCEPT ![t] = @ + 1]
    /\ result' = result
    /\ raised' = With(raised, t, e)

\* a task below a failed one is never run
MarkUpstreamFailed ==
    /\ \E t \in Tasks :
        /\ state[t] = "none"
        /\ TaskPos(t) > 1
        /\ state[task_ids[TaskPos(t) - 1]] \in {"failed", "upstream_failed"}
        /\ state' = [state EXCEPT ![t] = "upstream_failed"]
    /\ UNCHANGED <<csv, xcom, files, tries, result, raised, pulled>>

-----------------------------------------------------------------------------
(* Task 1: extract_and_validate *)

DatesOf(df, col) == {df.rows[i][col] : i \in 1..Len(df.rows)} \ {NaT}

\* Series.min() and Series.max() skip NaT and give NaT for no value at all
MinDate(S) == IF S = {} THEN NaT ELSE CHOOSE d \in S : \A e \in S : DateLE(d, e)

MaxDate(S) == IF S = {} THEN NaT ELSE CHOOSE d \in S : \A e \in S : DateLE(e, d)

\* min_date.year >= 2011 and max_date.year <= 2012; a comparison with the
\* year of NaT (NaN) is false
DateRangeOk(min_date, max_date) ==
    /\ min_date # NaT /\ max_date # NaT
    /\ min_date[1] >= 2011
    /\ max_date[1] <= 2012

\* a column check that ignores the order of the columns
ColumnsMatchAnyOrder(cols) ==
    Len(cols) = Len(expected_columns) /\ Range(cols) = Range(expected_columns)

\* the column check fails unless this holds: list(df.columns) == expected_columns
ColumnsMatch(cols) == cols = expected_columns

task_extract(faults) ==
    /\ Runnable("extract_and_validate")
    /\ LET t        == "extract_and_validate"
           raw      == read_csv(csv)
           df       == ParseDates(raw, "dteday")
           min_date == MinDate(DatesOf(df, "dteday"))
           max_date == MaxDate(DatesOf(df, "dteday"))
       IN  IF ~ColumnsMatch(raw.columns)
           THEN xcom' = ClearedXCom(t) /\ Raised(t, "Columnas no coinciden")
           ELSE IF ~DateRangeOk(min_date, max_date)
           THEN xcom' = ClearedXCom(t) /\ Raised(t, "Rango de fechas fuera de lo esperado")
           ELSE \E fault \in faults :
                /\ xcom' = PushAll(ClearedXCom(t),
                              <<[key |-> "validated_data", value |-> to_json(df)]>>,
                              fault)
                /\ IF fault # "none" THEN Raised(t, fault)
                   ELSE Succeeded(t, [status     |-> "success",
                                      records    |-> Len(df.rows),
                                      date_range |-> <<min_date, max_date>>])
    /\ pulled' = [pulled EXCEPT !["extract_and_validate"] = {}]
    /\ UNCHANGED <<csv, files>>

extract_and_validate == task_extract(NoPushFault)

-----------------------------------------------------------------------------
(* Task 2: transform_clean_and_denormalize *)

\* df.drop_duplicates(subset=['dteday', 'hr'], keep='first'): the positions
\* kept, scanning the rows in order and remembering the keys seen
RECURSIVE FirstOccurrences(_, _, _)
FirstOccurrences(df, i, seen) ==
    IF i > Len(df.rows) THEN <<>>
    ELSE LET key == <<df.rows[i].dteday, df.rows[i].hr>>
         IN  IF key \in seen THEN FirstOccurrences(df, i + 1, seen)
             ELSE <<i>> \o FirstOccurrences(df, i + 1, seen \cup {key})

\* keep='last': the latest row of each key survives
drop_duplicates_keep_last(df) ==
    Take(df, SortedInts({i \in 1..Len(df.rows) :
                            \A j \in (i + 1)..Len(df.rows) :
                                <<df.rows[j].dteday, df.rows[j].hr>>
                                  # <<df.rows[i].dteday, df.rows[i].hr>>}))

\* duplicates merged into the first row of their key: cnt is their total
drop_duplicates_merging(df) ==
    LET kept == Take(df, FirstOccurrences(df, 1, {}))
    IN  WithColumn(kept, "cnt",
            [k \in 1..Len(kept.rows) |->
                SumSeq([i \in 1..Len(df.rows) |->
                          IF <<df.rows[i].dteday, df.rows[i].hr>>
                               = <<kept.rows[k].dteday, kept.rows[k].hr>>
                          THEN df.rows[i].cnt ELSE 0])])

\* subset=['dteday']: one row survives for each date
drop_duplicates_by_date(df) ==
    Take(df, SortedInts({i \in 1..Len(df.rows) :
                            \A j \in 1..(i - 1) :
                                df.rows[j].dteday # df.rows[i].dteday}))

drop_duplicates(df) == Take(df, FirstOccurrences(df, 1, {}))

\* the columns cast with astype(int); an integer cell is left as it is
IntColumns ==
    {"season", "yr", "mnth", "hr", "holiday", "weekday", "workingday",
     "weathersit"}

astype_int(df) ==
    Table(df.columns, df.index,
          [i \in 1..Len(df.rows) |->
              [c \in DOMAIN df.rows[i] |->
                  IF c \in IntColumns THEN df.rows[i][c] + 0 ELSE df.rows[i][c]]])

\* the four columns added and the normalized temp overwritten with degrees
denormalize_rescaling(df) ==
    LET n  == Len(df.rows)
        d1 == WithColumn(df, "temp_celsius", [i \in 1..n |-> df.rows[i].temp * 41])
        d2 == WithColumn(d1, "atemp_celsius", [i \in 1..n |-> df.rows[i].atemp * 50])
        d3 == WithColumn(d2, "humidity_pct", [i \in 1..n |-> df.rows[i].hum * 100])
        d4 == WithColumn(d3, "windspeed_kmh", [i \in 1..n |-> df.rows[i].windspeed * 67])
    IN  WithColumn(d4, "temp", [i \in 1..n |-> df.rows[i].temp * 41])

denormalize(df) ==
    LET n  == Len(df.rows)
        d1 == WithColumn(df, "temp_celsius", [i \in 1..n |-> df.rows[i].temp * 41])
        d2 == WithColumn(d1, "atemp_celsius", [i \in 1..n |-> df.rows[i].atemp * 50])
        d3 == WithColumn(d2, "humidity_pct", [i \in 1..n |-> df.rows[i].hum * 100])
    IN  WithColumn(d3, "windspeed_kmh", [i \in 1..n |-> df.rows[i].windspeed * 67])

task_clean(faults) ==
    /\ Runnable("transform_clean_and_denormalize")
    /\ LET t   == "transform_clean_and_denormalize"
           df0 == ParseDates(read_json(xcom["validated_data"]), "dteday")
           initial_count == Len(df0.rows)
           df1 == drop_duplicates(df0)
           duplicates_removed == initial_count - Len(df1.rows)
           df  == denormalize(astype_int(df1))
       IN  IF PullFails(t)
           THEN xcom' = ClearedXCom(t) /\ Raised(t, "xcom_pull")
           ELSE \E fault \in faults :
                /\ xcom' = PushAll(ClearedXCom(t),
                              <<[key |-> "cleaned_data", value |-> to_json(df)]>>,
                              fault)
                /\ IF fault # "none" THEN Raised(t, fault)
                   ELSE Succeeded(t, [status             |-> "success",
                                      records            |-> Len(df.rows),
                                      duplicates_removed |-> duplicates_removed])
    /\ pulled' = [pulled EXCEPT !["transform_clean_and_denormalize"] =
                     {"validated_data"}]
    /\ UNCHANGED <<csv, files>>

transform_clean_and_denormalize == task_clean(NoPushFault)

-----------------------------------------------------------------------------
(* Task 3: transform_feature_engineering *)

\* the two intervals taken half-open, as range(7, 9) and range(17, 19) are
is_peak_hour_half_open(x) == (7 <= x /\ x < 9) \/ (17 <= x /\ x < 19)

is_peak_hour(x) == (7 <= x /\ x <= 9) \/ (17 <= x /\ x <= 19)

is_weekend(x) == x \in {0, 6}

season_map == (1 :> "Spring") @@ (2 :> "Summer") @@ (3 :> "Fall") @@ (4 :> "Winter")

weather_map ==
    (1 :> "Clear/Partly Cloudy") @@ (2 :> "Mist/Cloudy") @@
    (3 :> "Light Rain/Snow") @@ (4 :> "Heavy Rain/Snow")

day_map ==
    (0 :> "Sunday") @@ (1 :> "Monday") @@ (2 :> "Tuesday") @@
    (3 :> "Wednesday") @@ (4 :> "Thursday") @@ (5 :> "Friday") @@
    (6 :> "Saturday")

month_map ==
    (1 :> "January") @@ (2 :> "February") @@ (3 :> "March") @@
    (4 :> "April") @@ (5 :> "May") @@ (6 :> "June") @@ (7 :> "July") @@
    (8 :> "August") @@ (9 :> "September") @@ (10 :> "October") @@
    (11 :> "November") @@ (12 :> "December")

\* Series.map(dict) on one value: NaN for a key the dict does not hold
MapLabel(m, x) == IF x \in DOMAIN m THEN m[x] ELSE "NaN"

enrich(df) ==
    LET n  == Len(df.rows)
        d1 == WithColumn(df, "is_peak_hour",
                  [i \in 1..n |-> is_peak_hour(df.rows[i].hr)])
        d2 == WithColumn(d1, "is_weekend",
                  [i \in 1..n |-> is_weekend(df.rows[i].weekday)])
        d3 == WithColumn(d2, "season_name",
                  [i \in 1..n |-> MapLabel(season_map, df.rows[i].season)])
        d4 == WithColumn(d3, "weather_desc",
                  [i \in 1..n |-> MapLabel(weather_map, df.rows[i].weathersit)])
        d5 == WithColumn(d4, "day_name",
                  [i \in 1..n |-> MapLabel(day_map, df.rows[i].weekday)])
    IN  WithColumn(d5, "month_name",
            [i \in 1..n |-> MapLabel(month_map, df.rows[i].mnth)])

task_features(faults) ==
    /\ Runnable("transform_feature_engineering")
    /\ LET t   == "transform_feature_engineering"
           df0 == ParseDates(read_json(xcom["cleaned_data"]), "dteday")
           df  == enrich(df0)
       IN  IF PullFails(t)
           THEN xcom' = ClearedXCom(t) /\ Raised(t, "xcom_pull")
           ELSE \E fault \in faults :
                /\ xcom' = PushAll(ClearedXCom(t),
                              <<[key |-> "featured_data", value |-> to_json(df)]>>,
                              fault)
                /\ IF fault # "none" THEN Raised(t, fault)
                   ELSE Succeeded(t, [status        |-> "success",
                                      records       |-> Len(df.rows),
                                      total_columns |-> Len(df.columns)])
    /\ pulled' = [pulled EXCEPT !["transform_feature_engineering"] =
                     {"cleaned_data"}]
    /\ UNCHANGED <<csv, files>>

transform_feature_engineering == task_features(NoPushFault)

-----------------------------------------------------------------------------
(* Task 4: transform_aggregations *)

\* the values of a column over the rows at the given positions, in order
Column(df, pos, col) == [k \in 1..Len(pos) |-> df.rows[pos[k]][col]]

\* positions, in row order, of the rows whose key is g, given the key of
\* every row
GroupRows(keys, g) == SortedInts({i \in 1..Len(keys) : keys[i] = g})

\* 'mean' of a float column: the fraction sum / count
Mean(xs) == [sum |-> SumSeq(xs), count |-> Len(xs)]

Count(xs, v) == Cardinality({i \in 1..Len(xs) : xs[i] = v})

\* Series.mode(): the most frequent values, sorted increasingly
Mode(xs) ==
    LET top == {v \in Range(xs) : \A w \in Range(xs) : Count(xs, w) <= Count(xs, v)}
    IN  SortedInts(top)

\* of the most frequent values, the one met first in the rows
most_common_first_seen(xs) ==
    LET top == Range(Mode(xs))
    IN  xs[CHOOSE i \in 1..Len(xs) :
              xs[i] \in top /\ \A j \in 1..(i - 1) : xs[j] \notin top]

\* lambda x: x.mode()[0] if not x.mode().empty else x.iloc[0]
most_common(xs) == IF Mode(xs) # <<>> THEN Mode(xs)[1] ELSE xs[1]

daily_columns ==
    <<"date", "total_rentals", "casual_users", "registered_users",
      "avg_temp_celsius", "avg_humidity_pct", "avg_windspeed_kmh",
      "most_common_weather", "peak_hours_count", "is_weekend">>

\* df.groupby('dteday').agg({...}).reset_index(): one record per date, in
\* date order; rows whose date is NaT are in no group
daily_aggregation(df) ==
    LET keys == SortedDates(DatesOf(df, "dteday"))
        Rec(g) ==
            LET pos == GroupRows([i \in 1..Len(df.rows) |-> df.rows[i].dteday], g)
            IN  [date                |-> g,
                 total_rentals       |-> SumSeq(Column(df, pos, "cnt")),
                 casual_users        |-> SumSeq(Column(df, pos, "casual")),
                 registered_users    |-> SumSeq(Column(df, pos, "registered")),
                 avg_temp_celsius    |-> Mean(Column(df, pos, "temp_celsius")),
                 avg_humidity_pct    |-> Mean(Column(df, pos, "humidity_pct")),
                 avg_windspeed_kmh   |-> Mean(Column(df, pos, "windspeed_kmh")),
                 most_common_weather |-> most_common(Column(df, pos, "weathersit")),
                 peak_hours_count    |->
                     Cardinality({k \in 1..Len(pos) : df.rows[pos[k]].is_peak_hour}),
                 is_weekend          |->
                     \E k \in 1..Len(pos) : df.rows[pos[k]].is_weekend]
    IN  Table(daily_columns,
              [k \in 1..Len(keys) |-> k - 1],
              [k \in 1..Len(keys) |-> Rec(keys[k])])

\* df['year'] = df['dteday'].dt.year; df['week'] = df['dteday'].dt.isocalendar().week
with_year_week(df) ==
    WithColumn(WithColumn(df, "year",
                   [i \in 1..Len(df.rows) |-> YearOf(df.rows[i].dteday)]),
               "week", [i \in 1..Len(df.rows) |-> WeekOf(df.rows[i].dteday)])

weekly_columns ==
    <<"year", "week", "total_rentals", "casual_users", "registered_users",
      "avg_temp_celsius", "avg_humidity_pct", "avg_windspeed_kmh",
      "week_start", "week_end">>

\* the grouping key of a row of the weekly aggregation
WeekKey(r) == <<r.year, r.week>>

WeekKeyLE(a, b) ==
    a[1][1] < b[1][1] \/ (a[1][1] = b[1][1] /\ a[2][1] <= b[2][1])

\* the elements of a finite set of (year, week) keys in increasing order
SortedWeekKeys(S) ==
    [k \in 1..Cardinality(S) |->
        CHOOSE x \in S : Cardinality({y \in S : WeekKeyLE(y, x)}) = k]

\* df.groupby(['year', 'week']).agg({...}).reset_index(): one record per
\* (year, week) in that order; rows with a missing key are in no group
weekly_aggregation(df) ==
    LET keyset == {WeekKey(df.rows[i]) : i \in 1..Len(df.rows)}
        keys   == SortedWeekKeys({g \in keyset : g[1] # <<>> /\ g[2] # <<>>})
        Rec(g) ==
            LET pos == GroupRows([i \in 1..Len(df.rows) |-> WeekKey(df.rows[i])], g)
                ds  == Range(Column(df, pos, "dteday"))
            IN  [year              |-> g[1][1],
                 week              |-> g[2][1],
                 total_rentals     |-> SumSeq(Column(df, pos, "cnt")),
                 casual_users      |-> SumSeq(Column(df, pos, "casual")),
                 registered_users  |-> SumSeq(Column(df, pos, "registered")),
                 avg_temp_celsius  |-> Mean(Column(df, pos, "temp_celsius")),
                 avg_humidity_pct  |-> Mean(Column(df, pos, "humidity_pct")),
                 avg_windspeed_kmh |-> Mean(Column(df, pos, "windspeed_kmh")),
                 week_start        |-> MinDate(ds),
                 week_end          |-> MaxDate(ds)]
    IN  Table(weekly_columns,
              [k \in 1..Len(keys) |-> k - 1],
              [k \in 1..Len(keys) |-> Rec(keys[k])])

task_aggregate(faults) ==
    /\ Runnable("transform_aggregations")
    /\ LET t          == "transform_aggregations"
           df0        == ParseDates(read_json(xcom["featured_data"]), "dteday")
           daily_agg  == daily_aggregation(df0)
           df         == with_year_week(df0)
           weekly_agg == weekly_aggregation(df)
       IN  IF PullFails(t)
           THEN xcom' = ClearedXCom(t) /\ Raised(t, "xcom_pull")
           ELSE \E fault \in faults :
                /\ xcom' = PushAll(ClearedXCom(t),
                              <<[key |-> "final_data", value |-> to_json(df)],
                                [key |-> "daily_agg", value |-> to_json(daily_agg)],
                                [key |-> "weekly_agg", value |-> to_json(weekly_agg)]>>,
                              fault)
                /\ IF fault # "none" THEN Raised(t, fault)
                   ELSE Succeeded(t, [status         |-> "success",
                                      daily_records  |-> Len(daily_agg.rows),
                                      weekly_records |-> Len(weekly_agg.rows)])
    /\ pulled' = [pulled EXCEPT !["transform_aggregations"] = {"featured_data"}]
    /\ UNCHANGED <<csv, files>>

transform_aggregations == task_aggregate(NoPushFault)

-----------------------------------------------------------------------------
(* Task 5: load_to_parquet *)

FullPath == "bike_sharing_full.parquet"

DailyPath == "daily_summary.parquet"

WeeklyPath == "weekly_summary.parquet"

\* df.to_parquet(path, index=False): the columns and the rows, no index
Parquet(df) == [complete |-> TRUE, columns |-> df.columns, rows |-> df.rows]

\* what a write that failed midway may leave at the path
Truncated == [complete |-> FALSE, columns |-> <<>>, rows |-> <<>>]

\* where the file system may fail the task: creating the directory or
\* writing one of the three files
LoadFaults == {"none", "mkdir", FullPath, DailyPath, WeeklyPath}

\* all three files or none: a failing write undoes the writes before it
WriteAllOrNothing(fs, writes, fault, leaves) ==
    LET paths == {writes[i].path : i \in 1..Len(writes)}
    IN  IF fault \in paths THEN Without(fs, paths)
        ELSE [p \in DOMAIN fs \cup paths |->
                IF p \in paths
                THEN Parquet(writes[CHOOSE i \in 1..Len(writes) : writes[i].path = p].df)
                ELSE fs[p]]

\* a path that already holds a file is left as it is
RECURSIVE WriteAllKeepingExisting(_, _, _, _)
WriteAllKeepingExisting(fs, writes, fault, leaves) ==
    IF writes = <<>> THEN fs
    ELSE LET w == Head(writes)
         IN  IF w.path = fault
             THEN (IF leaves THEN With(fs, w.path, Truncated) ELSE fs)
             ELSE WriteAllKeepingExisting(
                      IF w.path \in DOMAIN fs THEN fs
                      ELSE With(fs, w.path, Parquet(w.df)),
                      Tail(writes), fault, leaves)

\* the files after the writes in order, the write of `fault` failing and
\* leaving the path as it was or holding a truncated file
RECURSIVE WriteAll(_, _, _, _)
WriteAll(fs, writes, fault, leaves) ==
    IF writes = <<>> THEN fs
    ELSE LET w == Head(writes)
         IN  IF w.path = fault
             THEN (IF leaves THEN With(fs, w.path, Truncated) ELSE fs)
             ELSE WriteAll(With(fs, w.path, Parquet(w.df)), Tail(writes), fault, leaves)

load_to_parquet ==
    /\ Runnable("load_to_parquet")
    /\ LET t        == "load_to_parquet"
           df       == ParseDates(read_json(xcom["final_data"]), "dteday")
           daily_df == ParseDates(read_json(xcom["daily_agg"]), "date")
           weekly_df ==
               ParseDates(ParseDates(read_json(xcom["weekly_agg"]),
                                     "week_start"), "week_end")
           writes   == <<[path |-> FullPath, df |-> df],
                         [path |-> DailyPath, df |-> daily_df],
                         [path |-> WeeklyPath, df |-> weekly_df]>>
       IN  \E fault \in LoadFaults, leaves \in BOOLEAN :
            /\ fault \in {"none", "mkdir"} => ~leaves
            /\ pulled' = [pulled EXCEPT ![t] =
                             IF fault = "mkdir" THEN {} ELSE PullKeys(t)]
            /\ IF fault = "mkdir"
               THEN files' = files /\ Raised(t, fault)
               ELSE IF PullFails(t)
               THEN files' = files /\ Raised(t, "xcom_pull")
               ELSE IF fault # "none"
               THEN files' = WriteAll(files, writes, fault, leaves) /\ Raised(t, fault)
               ELSE /\ files' = WriteAll(files, writes, fault, leaves)
                    /\ Succeeded(t, [status         |-> "success",
                                     files_created  |-> 3,
                                     full_records   |-> Len(df.rows),
                                     daily_records  |-> Len(daily_df.rows),
                                     weekly_records |-> Len(weekly_df.rows)])
    /\ UNCHANGED <<csv, xcom>>

-----------------------------------------------------------------------------
(* The run *)

Init ==
    /\ csv \in InputFiles
    /\ xcom = <<>>
    /\ files = <<>>
    /\ state = [t \in Tasks |-> "none"]
    /\ tries = [t \in Tasks |-> 0]
    /\ result = <<>>
    /\ raised = <<>>
    /\ pulled = [t \in Tasks |-> {}]

Next ==
    \/ extract_and_validate
    \/ transform_clean_and_denormalize
    \/ transform_feature_engineering
    \/ transform_aggregations
    \/ load_to_parquet
    \/ MarkUpstreamFailed

Spec == Init /\ [][Next]_vars

\* The run with an XCom backend that may fail: any xcom_push of any try may
\* raise.  The input files are the tables of up to MaxRows lines of one
\* day and hour, which the Cleaner de-duplicates.
XComInputs ==
    {CsvFile(expected_columns, Numbered(rws)) :
        rws \in SeqsUpTo({RawRow(PlainDate, 7, DatasetCodes(PlainDate), k) :
                             k \in {FirstCounts, SecondCounts}}, MaxRows)}

InitXCom == Init /\ csv \in XComInputs

NextXCom ==
    \/ task_extract(PushFaults("extract_and_validate"))
    \/ task_clean(PushFaults("transform_clean_and_denormalize"))
    \/ task_features(PushFaults("transform_feature_engineering"))
    \/ task_aggregate(PushFaults("transform_aggregations"))
    \/ load_to_parquet
    \/ MarkUpstreamFailed

SpecXCom == InitXCom /\ [][NextXCom]_vars

-----------------------------------------------------------------------------
(* Views of the run used by the properties *)

Done(t) == state[t] = "success"

Pushed(k) == k \in DOMAIN xcom

\* the table a stage reads back from a payload, with its dates parsed
Pulled(k) == ParseDates(read_json(xcom[k]), "dteday")

SumColumn(df, col) == SumSeq([i \in 1..Len(df.rows) |-> df.rows[i][col]])

\* the path holds a file that was written to its end
Complete(path) == path \in DOMAIN files /\ files[path].complete

-----------------------------------------------------------------------------
(* C1 *)

\* C1 (as claimed): once the Aggregator has succeeded, the daily
\* total_rentals, the weekly total_rentals and the row-level cnt of the
\* enriched table it pushes all add up to the same number.
C1_TotalsReconcile ==
    Done("transform_aggregations") =>
        /\ SumColumn(xcom["daily_agg"], "total_rentals")
             = SumColumn(xcom["final_data"], "cnt")
        /\ SumColumn(xcom["weekly_agg"], "total_rentals")
             = SumColumn(xcom["final_data"], "cnt")

-----------------------------------------------------------------------------
(* C2 *)

\* C2 (as claimed): once the Aggregator has succeeded, two dated rows are in
\* the same weekly record exactly if their dates have the same ISO year and
\* ISO week, and the weekly table has one record per ISO (year, week) of the
\* dated rows.
C2_WeeklyGroupsAreIsoWeeks ==
    Done("transform_aggregations") =>
        LET df    == Pulled("final_data")
            dated == {i \in 1..Len(df.rows) : df.rows[i].dteday # NaT}
        IN  /\ \A i, j \in dated :
                 (WeekKey(df.rows[i]) = WeekKey(df.rows[j]))
                   <=> (IsoCalendar(df.rows[i].dteday) = IsoCalendar(df.rows[j].dteday))
            /\ Len(xcom["weekly_agg"].rows)
                 = Cardinality({IsoCalendar(df.rows[i].dteday) : i \in dated})

-----------------------------------------------------------------------------
(* C3 *)

DedupKey(r) == <<r.dteday, r.hr>>

\* C3: whenever the Cleaner's payload is there, it holds one row per
\* (date, hour) key of the Cleaner's input, each the earliest input row with
\* its key and unchanged in the input columns, the rows are in input order,
\* and the Cleaner reported input rows minus output rows as
\* duplicates_removed.
C3_DedupKeepsFirst ==
    Pushed("cleaned_data") =>
        LET inp == xcom["validated_data"]
            out == xcom["cleaned_data"]
            n   == Len(out.rows)
        IN  /\ \A k1, k2 \in 1..n :
                 k1 # k2 => DedupKey(out.rows[k1]) # DedupKey(out.rows[k2])
            /\ {DedupKey(out.rows[k]) : k \in 1..n}
                 = {DedupKey(inp.rows[i]) : i \in 1..Len(inp.rows)}
            /\ \A k \in 1..n : \E i \in 1..Len(inp.rows) :
                 /\ inp.index[i] = out.index[k]
                 /\ \A c \in Range(expected_columns) : out.rows[k][c] = inp.rows[i][c]
                 /\ \A j \in 1..(i - 1) : DedupKey(inp.rows[j]) # DedupKey(inp.rows[i])
            /\ \A k1, k2 \in 1..n : k1 < k2 => out.index[k1] < out.index[k2]
            /\ result["transform_clean_and_denormalize"].duplicates_removed
                 = Len(inp.rows) - n
            /\ result["transform_clean_and_denormalize"].records = n

\* a duplicate between two surviving rows was dropped
C3_Witness ==
    /\ Pushed("cleaned_data")
    /\ Len(xcom["validated_data"].rows) = 3
    /\ xcom["cleaned_data"].index = <<0, 2>>
    /\ result["transform_clean_and_denormalize"].duplicates_removed = 1

-----------------------------------------------------------------------------
(* C4 *)

\* C4 (as claimed): the Enricher hands off featured_data only if every row
\* it was given has its season and weather codes in 1..4, its weekday code
\* in 0..6 and its month in 1..12, and then no label is missing.
C4_UnmappedCodeFailsStage ==
    Pushed("featured_data") =>
        /\ \A i \in 1..Len(xcom["cleaned_data"].rows) :
             LET r == xcom["cleaned_data"].rows[i]
             IN  /\ r.season \in 1..4
                 /\ r.weathersit \in 1..4
                 /\ r.weekday \in 0..6
                 /\ r.mnth \in 1..12
        /\ \A i \in 1..Len(xcom["featured_data"].rows) :
             \A c \in LabelColumns : xcom["featured_data"].rows[i][c] # "null"

-----------------------------------------------------------------------------
(* C5 *)

\* C5: when the file's column list is not the expected one, the Validator
\* never succeeds, nothing is handed off, no later task makes a try and no
\* file is written.
C5_SchemaMismatchStopsRun ==
    csv.columns # expected_columns =>
        /\ state["extract_and_validate"] \in {"none", "up_for_retry", "failed"}
        /\ xcom = <<>>
        /\ files = <<>>
        /\ result = <<>>
        /\ \A t \in Tasks \ {"extract_and_validate"} :
             tries[t] = 0 /\ state[t] \in {"none", "upstream_failed"}
        /\ \A t \in DOMAIN raised : raised[t] = "Columnas no coinciden"

\* the Validator failed for good on a mismatched header and the run is over
C5_Witness ==
    /\ csv.columns # expected_columns
    /\ state["extract_and_validate"] = "failed"
    /\ tries["extract_and_validate"] = retries + 1
    /\ state["load_to_parquet"] = "upstream_failed"

-----------------------------------------------------------------------------
(* C6 *)

\* C6 (as claimed): the Validator hands off a table only if it has rows and
\* every row's parsed date has calendar year 2011 or 2012.
C6_AllDatesInRange ==
    Pushed("validated_data") =>
        LET df == Pulled("validated_data")
        IN  /\ Len(df.rows) > 0
            /\ \A i \in 1..Len(df.rows) :
                 /\ df.rows[i].dteday # NaT
                 /\ df.rows[i].dteday[1] \in {2011, 2012}

-----------------------------------------------------------------------------
(* C7 *)

\* C7 (as claimed): once the Loader has succeeded, the full file has the
\* columns of the Enricher's table (17 + 4 + 6) and the same rows.
C7_FullIsEnrichedTable ==
    Done("load_to_parquet") =>
        LET enriched == Pulled("featured_data")
            full     == files[FullPath]
        IN  /\ full.columns = enriched.columns
            /\ Len(full.columns) = 17 + 4 + 6
            /\ Len(full.rows) = Len(enriched.rows)
            /\ \A i \in 1..Len(full.rows) : \A c \in Range(enriched.columns) :
                 full.rows[i][c] = enriched.rows[i][c]

-----------------------------------------------------------------------------
(* C8 *)

\* C8: when the Loader's latest try raised on writing the weekly file, the
\* Loader has not succeeded and has returned nothing, and the full and daily
\* files hold, written to their end, the columns and rows of the tables
\* pulled; and the Loader has succeeded, and returned, only with all three
\* files written to their end.
C8_WeeklyWriteFailure ==
    LET L == "load_to_parquet"
    IN  /\ (L \in DOMAIN raised /\ raised[L] = WeeklyPath) =>
             /\ state[L] \in {"up_for_retry", "failed"}
             /\ L \notin DOMAIN result
             /\ Complete(FullPath)
             /\ files[FullPath].columns = xcom["final_data"].columns
             /\ files[FullPath].rows = Pulled("final_data").rows
             /\ Complete(DailyPath)
             /\ files[DailyPath].columns = xcom["daily_agg"].columns
             /\ Len(files[DailyPath].rows) = Len(xcom["daily_agg"].rows)
        /\ (L \in DOMAIN result) <=> Done(L)
        /\ Done(L) => Complete(FullPath) /\ Complete(DailyPath) /\ Complete(WeeklyPath)

\* the first try of the Loader failed on the weekly file
C8_Witness ==
    /\ "load_to_parquet" \in DOMAIN raised
    /\ raised["load_to_parquet"] = WeeklyPath
    /\ tries["load_to_parquet"] = 1
    /\ Complete(FullPath) /\ Complete(DailyPath)
    /\ ~Complete(WeeklyPath)

-----------------------------------------------------------------------------
(* C9 *)

\* the row of the input file with the same instant has the same counts
SameCounts(r) ==
    \E i \in 1..Len(csv.rows) :
        /\ csv.rows[i].instant = r.instant
        /\ csv.rows[i].casual = r.casual
        /\ csv.rows[i].registered = r.registered
        /\ csv.rows[i].cnt = r.cnt

\* C9: every row of every row-level payload and of the full file has the
\* casual, registered and cnt of the input row it comes from, so that
\* casual + registered = cnt holds of it if it held in the input.
C9_CountsUntouched ==
    /\ \A k \in {"validated_data", "cleaned_data", "featured_data", "final_data"} :
         Pushed(k) => \A i \in 1..Len(xcom[k].rows) : SameCounts(xcom[k].rows[i])
    /\ FullPath \in DOMAIN files =>
         \A i \in 1..Len(files[FullPath].rows) : SameCounts(files[FullPath].rows[i])

\* a table that lost a duplicate went through every stage into the full file
C9_Witness ==
    /\ Done("load_to_parquet")
    /\ result["transform_clean_and_denormalize"].duplicates_removed = 1
    /\ Len(files[FullPath].rows) = 2
    /\ \A i \in 1..2 :
         files[FullPath].rows[i].casual + files[FullPath].rows[i].registered
           = files[FullPath].rows[i].cnt

-----------------------------------------------------------------------------
(* C10 *)

PeakHours == {7, 8, 9, 17, 18, 19}

\* C10: whenever the Enricher's payload is there, is_peak_hour of each row
\* is true exactly for the hours 7, 8, 9, 17, 18 and 19, and the payload has
\* the rows of the Enricher's input, with their cells, in the same order.
C10_PeakHourAndRowOrder ==
    Pushed("featured_data") =>
        LET inp == xcom["cleaned_data"]
            out == xcom["featured_data"]
        IN  /\ out.index = inp.index
            /\ Len(out.rows) = Len(inp.rows)
            /\ \A i \in 1..Len(out.rows) :
                 /\ out.rows[i].is_peak_hour = (out.rows[i].hr \in PeakHours)
                 /\ \A c \in Range(inp.columns) : out.rows[i][c] = inp.rows[i][c]

\* the last peak hour of the evening was flagged
C10_Witness ==
    /\ Pushed("featured_data")
    /\ Len(xcom["featured_data"].rows) = 1
    /\ xcom["featured_data"].rows[1].hr = 19
    /\ xcom["featured_data"].rows[1].is_peak_hour

-----------------------------------------------------------------------------
(* C11 *)

\* C11: the Cleaner run on its own output, read back from cleaned_data,
\* gives the same rows in the same order under the same index labels and
\* the same payload, and counts 0 duplicates removed.
C11_CleanerIdempotent ==
    Pushed("cleaned_data") =>
        LET T1 == Pulled("cleaned_data")
            D2 == drop_duplicates(T1)
            T2 == denormalize(astype_int(D2))
        IN  /\ T2.rows = T1.rows
            /\ T2.index = T1.index
            /\ to_json(T2) = xcom["cleaned_data"]
            /\ Len(T1.rows) - Len(D2.rows) = 0

\* the Cleaner removed a duplicate and kept more than one row
C11_Witness ==
    /\ Done("transform_clean_and_denormalize")
    /\ result["transform_clean_and_denormalize"].duplicates_removed > 0
    /\ Len(Pulled("cleaned_data").rows) > 1

-----------------------------------------------------------------------------
(* C12 *)

\* the calendar days of 2011 and 2012
RangeDates ==
    {<<y, m, d>> : y \in 2011..2012, m \in 1..12, d \in 1..31} \
      {<<y, m, d>> \in (2011..2012) \X (1..12) \X (1..31) : d > DaysInMonth(y, m)}

\* the (year, week) keys the weekly grouping gives the days of 2011 and 2012
RangeWeekKeys == {<<d[1], IsoCalendar(d)[2]>> : d \in RangeDates}

\* the distinct (date, hour) pairs and the distinct dates of the input file
InputPairs ==
    {<<to_datetime(csv.rows[i].dteday), csv.rows[i].hr>> : i \in 1..Len(csv.rows)}

InputDates == {to_datetime(csv.rows[i].dteday) : i \in 1..Len(csv.rows)} \ {NaT}

\* C12: a full file written to its end has as many rows as the input has
\* distinct (date, hour) pairs; a daily file written to its end has one
\* record for each distinct date of the input, each a day of 2011 or 2012,
\* of which there are at most 731; a weekly file written to its end has
\* records of distinct (year, week) keys among those of the days of 2011
\* and 2012, of which there are at most 105.
C12_ArtifactRowCounts ==
    /\ Complete(FullPath) => Len(files[FullPath].rows) = Cardinality(InputPairs)
    /\ Complete(DailyPath) =>
          LET rws == files[DailyPath].rows
          IN  /\ Len(rws) = Cardinality(InputDates)
              /\ {rws[i].date : i \in 1..Len(rws)} = InputDates
              /\ InputDates \subseteq RangeDates
    /\ Complete(WeeklyPath) =>
          LET rws == files[WeeklyPath].rows
          IN  /\ \A i, j \in 1..Len(rws) :
                   (rws[i].year = rws[j].year /\ rws[i].week = rws[j].week) => i = j
              /\ \A i \in 1..Len(rws) : <<rws[i].year, rws[i].week>> \in RangeWeekKeys
    /\ Cardinality(RangeDates) <= 731
    /\ Cardinality(RangeWeekKeys) <= 105

\* three lines with a duplicate gave two rows, two days and two weeks
C12_Witness ==
    /\ Done("load_to_parquet")
    /\ Len(csv.rows) = 3
    /\ Len(files[FullPath].rows) = 2
    /\ Len(files[DailyPath].rows) = 2
    /\ Len(files[WeeklyPath].rows) = 2

-----------------------------------------------------------------------------
(* C13 *)

\* C13 (as claimed): a task that has succeeded has exactly one XCom entry
\* of its own, if a task follows it, and its try pulled exactly one entry,
\* one of the task before it, if a task precedes it, and none otherwise.
C13_OnePayloadEach ==
    \A t \in Tasks :
        Done(t) =>
            /\ TaskPos(t) < Len(task_ids) =>
                  Cardinality(XComKeys(t) \cap DOMAIN xcom) = 1
            /\ IF TaskPos(t) = 1 THEN pulled[t] = {}
               ELSE /\ Cardinality(pulled[t]) = 1
                    /\ pulled[t] \subseteq XComKeys(task_ids[TaskPos(t) - 1])

-----------------------------------------------------------------------------
(* C14 *)

\* C14 (as claimed): a task that has succeeded has returned and has all its
\* XCom entries; a task that has not, whether it has not run, was skipped or
\* raised in its latest try, has none of its XCom entries.
C14_NoPartialSuccess ==
    \A t \in Tasks :
        IF Done(t)
        THEN t \in DOMAIN result /\ XComKeys(t) \subseteq DOMAIN xcom
        ELSE XComKeys(t) \cap DOMAIN xcom = {}

-----------------------------------------------------------------------------
(* C15 *)

\* the task makes a try in this step
Tries(t) == tries'[t] # tries[t]

\* C15: in a step in which a task makes a try, no other task makes a try or
\* changes state, every task before it has succeeded and has its XCom
\* entries, and no task after it has ever made a try; and after any step a
\* task below a failed or skipped task has never made a try.
C15_StrictOrder ==
    [][\A t \in Tasks :
          /\ Tries(t) =>
                /\ \A u \in Tasks \ {t} : ~Tries(u) /\ state'[u] = state[u]
                /\ \A u \in Tasks :
                      TaskPos(u) < TaskPos(t) =>
                          Done(u) /\ XComKeys(u) \subseteq DOMAIN xcom
                /\ \A u \in Tasks : TaskPos(u) > TaskPos(t) => tries[u] = 0
          /\ (TaskPos(t) > 1
                /\ state'[task_ids[TaskPos(t) - 1]] \in {"failed", "upstream_failed"})
               => tries'[t] = 0]_vars

\* the Loader has made a try after the Cleaner and the Aggregator were retried
C15_Witness ==
    /\ tries["load_to_parquet"] > 0
    /\ tries["transform_clean_and_denormalize"] > 1
    /\ tries["transform_aggregations"] > 1

-----------------------------------------------------------------------------
(* C16 *)

\* the table a callable reads back from the payload made of df
HandedOver(df) == ParseDates(read_json(to_json(df)), "dteday")

\* the file one invocation of the Loader makes of a table
FileOnce(df, datecols) ==
    LET js == read_json(to_json(df))
    IN  Parquet(IF Len(datecols) = 1 THEN ParseDates(js, datecols[1])
                ELSE ParseDates(ParseDates(js, datecols[1]), datecols[2]))

\* C16: however many tries any task has made, the XCom entries of a task
\* that has succeeded are the payloads one invocation of each callable in
\* turn makes of the input file, and once the Loader has succeeded the
\* files are the three files, and no other, that one invocation writes.
C16_RetriesLeaveNoTrace ==
    LET validated == ParseDates(read_csv(csv), "dteday")
        cleaned   == denormalize(astype_int(drop_duplicates(HandedOver(validated))))
        featured  == enrich(HandedOver(cleaned))
        final     == with_year_week(HandedOver(featured))
        daily     == daily_aggregation(HandedOver(featured))
        weekly    == weekly_aggregation(final)
    IN  /\ Done("extract_and_validate") =>
              xcom["validated_data"] = to_json(validated)
        /\ Done("transform_clean_and_denormalize") =>
              xcom["cleaned_data"] = to_json(cleaned)
        /\ Done("transform_feature_engineering") =>
              xcom["featured_data"] = to_json(featured)
        /\ Done("transform_aggregations") =>
              /\ xcom["final_data"] = to_json(final)
              /\ xcom["daily_agg"] = to_json(daily)
              /\ xcom["weekly_agg"] = to_json(weekly)
        /\ Done("load_to_parquet") =>
              /\ DOMAIN files = {FullPath, DailyPath, WeeklyPath}
              /\ files[FullPath] = FileOnce(final, <<"dteday">>)
              /\ files[DailyPath] = FileOnce(daily, <<"date">>)
              /\ files[WeeklyPath] = FileOnce(weekly, <<"week_start", "week_end">>)

\* the Loader succeeded at its third try, after tries that left truncated
\* files, below tasks that were retried as well
C16_Witness ==
    /\ Done("load_to_parquet")
    /\ tries["load_to_parquet"] = 3
    /\ tries["transform_aggregations"] = 3
    /\ tries["transform_clean_and_denormalize"] = 2
    /\ tries["extract_and_validate"] = 2

-----------------------------------------------------------------------------
(* C17 *)

\* how many rows of df are dated d and have weather code w
WeatherCount(df, d, w) ==
    Cardinality({i \in 1..Len(df.rows) :
                    df.rows[i].dteday = d /\ df.rows[i].weathersit = w})

\* C17: once the Aggregator has succeeded, every daily record is of a date
\* with at least one row, and its most_common_weather is a code of one of
\* that date's rows, no code is more frequent among them, and no code
\* equally frequent among them is smaller.
C17_MostCommonWeather ==
    Done("transform_aggregations") =>
        LET df    == Pulled("featured_data")
            daily == ParseDates(read_json(xcom["daily_agg"]), "date")
            codes == {df.rows[i].weathersit : i \in 1..Len(df.rows)}
        IN  \A k \in 1..Len(daily.rows) :
                LET d == daily.rows[k].date
                    m == daily.rows[k].most_common_weather
                IN  /\ \E i \in 1..Len(df.rows) : df.rows[i].dteday = d
                    /\ WeatherCount(df, d, m) > 0
                    /\ \A w \in codes :
                          /\ WeatherCount(df, d, w) <= WeatherCount(df, d, m)
                          /\ WeatherCount(df, d, w) = WeatherCount(df, d, m) => m <= w

\* a day of two rows whose codes tie, the larger code in the earlier row
C17_Witness ==
    /\ Done("transform_aggregations")
    /\ Len(xcom["daily_agg"].rows) = 1
    /\ xcom["daily_agg"].rows[1].most_common_weather = 1
    /\ Len(Pulled("featured_data").rows) = 2
    /\ Pulled("featured_data").rows[1].weathersit = 2
    /\ Pulled("featured_data").rows[2].weathersit = 1
    /\ Pulled("featured_data").rows[1].dteday = Pulled("featured_data").rows[2].dteday

=============================================================================
